---------------------------- MODULE Spec2Model ----------------------------
(***************************************************************************)
(* Model of the text-preparation service (backend/api/app.py) and of the   *)
(* speech output gate of the voice agent (backend/voice-agent/agent.py).   *)
(*                                                                         *)
(* Texts are sequences of one-character strings.  Durations are kept in    *)
(* hundredths of a second, the resolution round(x, 2) leaves them with.    *)
(* A Python dict is a record whose domain is the set of its keys; an       *)
(* Optional value is None (the empty set) or Some(v) (a singleton).        *)
(***************************************************************************)
EXTENDS Integers, Sequences, FiniteSets, TLC

\* ------------------------------------------------------------------------
\* Bounds of the model and constants of the program
\* ------------------------------------------------------------------------

\* Largest number of fragments a streamed utterance delivers.
MaxFragments == 3

WORDS_PER_MINUTE == 180

\* Default of MAX_AUDIO_LENGTH_SECONDS.
DefaultMaxAudioLength == 8

\* Values of MAX_AUDIO_LENGTH_SECONDS the service is started with.
ConfigChoices == {0, 1, DefaultMaxAudioLength, 21}

\* ------------------------------------------------------------------------
\* Python values
\* ------------------------------------------------------------------------

None == {}
Some(v) == {v}
TheValue(o) == CHOOSE v \in o : TRUE

\* dict.get(key): the value, or None when the key is absent.
Get(d, key) == IF key \in DOMAIN d THEN Some(d[key]) ELSE None

\* dict.get(key, default).
GetDefault(d, key, default) == IF key \in DOMAIN d THEN Some(d[key]) ELSE Some(default)

\* ------------------------------------------------------------------------
\* Texts
\* ------------------------------------------------------------------------

\* \w of the regular expression: letters, digits and the underscore.
IsWordChar(c) == c \in {"a", "b"}

\* White space as str.strip() understands it.
IsSpace(c) == c = " "

\* len(re.findall(r'\w+', text)): the number of maximal runs of word
\* characters.
CountWords(text) ==
    Cardinality({i \in 1..Len(text) :
                    /\ IsWordChar(text[i])
                    /\ (i = 1 \/ ~IsWordChar(text[i - 1]))})

\* str.strip(): the text without its leading and trailing white space.
Strip(s) ==
    LET solid == {i \in 1..Len(s) : ~IsSpace(s[i])}
    IN IF solid = {} THEN <<>>
       ELSE LET first == CHOOSE i \in solid : \A j \in solid : i <= j
                last == CHOOSE i \in solid : \A j \in solid : j <= i
            IN SubSeq(s, first, last)

\* A text of n one-letter words separated by single spaces.
Words(n) == [i \in 1..(IF n = 0 THEN 0 ELSE 2 * n - 1) |-> IF i % 2 = 1 THEN "a" ELSE " "]

\* The concatenation of a sequence of fragments, in order.
RECURSIVE Flatten(_)
Flatten(fragments) ==
    IF fragments = <<>> THEN <<>>
    ELSE Head(fragments) \o Flatten(Tail(fragments))

\* ------------------------------------------------------------------------
\* Numbers
\* ------------------------------------------------------------------------

\* The integer nearest to n / d, ties to the even one (Python's round).
RoundDiv(n, d) ==
    LET q == n \div d
        r == n % d
    IN IF 2 * r > d \/ (2 * r = d /\ q % 2 = 1) THEN q + 1 ELSE q

\* IEEE-754 doubles.  A positive double is 0.M * 2^e with a 53-bit M whose
\* top bit is set; M is kept as three limbs hi (17 bits), mid and lo
\* (18 bits each).
LimbBits == 18
TopBits == 17
Limb == 2 ^ LimbBits

\* Scale p / q into [1/2, 1) and return the binary exponent taken out.
RECURSIVE Normalize(_, _, _)
Normalize(p, q, e) ==
    IF p >= q THEN Normalize(p, 2 * q, e + 1)
    ELSE IF 2 * p < q THEN Normalize(2 * p, q, e - 1)
    ELSE [p |-> p, q |-> q, e |-> e]

\* The next double above f.
FloatIncrement(f) ==
    IF f.lo + 1 < Limb THEN [f EXCEPT !.lo = f.lo + 1]
    ELSE IF f.mid + 1 < Limb THEN [f EXCEPT !.lo = 0, !.mid = f.mid + 1]
    ELSE IF f.hi + 1 < 2 ^ TopBits THEN [f EXCEPT !.lo = 0, !.mid = 0, !.hi = f.hi + 1]
    ELSE [hi |-> 2 ^ (TopBits - 1), mid |-> 0, lo |-> 0, e |-> f.e + 1]

\* p / q for positive integers, rounded to the nearest double, ties to even.
FloatDiv(p, q) ==
    LET n == Normalize(p, q, 0)
        t1 == n.p * (2 ^ TopBits)
        t2 == (t1 % n.q) * Limb
        t3 == (t2 % n.q) * Limb
        r == t3 % n.q
        f == [hi |-> t1 \div n.q, mid |-> t2 \div n.q, lo |-> t3 \div n.q, e |-> n.e]
    IN IF 2 * r > n.q \/ (2 * r = n.q /\ f.lo % 2 = 1) THEN FloatIncrement(f) ELSE f

RECURSIVE BitLength(_)
BitLength(n) == IF n = 0 THEN 0 ELSE 1 + BitLength(n \div 2)

\* f * k for a positive integer k, rounded to the nearest double.
FloatMulInt(f, k) ==
    LET t3 == f.lo * k
        t2 == f.mid * k + t3 \div Limb
        t1 == f.hi * k + t2 \div Limb
        l3 == t3 % Limb
        l2 == t2 % Limb
        extra == BitLength(t1) - TopBits
        sh == 2 ^ extra
        g == [hi |-> t1 \div sh,
              mid |-> (t1 % sh) * (Limb \div sh) + l2 \div sh,
              lo |-> (l2 % sh) * (Limb \div sh) + l3 \div sh,
              e |-> f.e + extra]
        dropped == l3 % sh
    IN IF extra > 0 /\ (2 * dropped > sh \/ (2 * dropped = sh /\ g.lo % 2 = 1))
       THEN FloatIncrement(g) ELSE g

\* The integer part of a positive double below 2^16.
IntPart(f) == IF f.e <= 0 THEN 0 ELSE f.hi \div (2 ^ (TopBits - f.e))

\* int(f) of a positive double: truncation.
FloatTrunc(f) == IntPart(f)

\* round(f) of a positive double: nearest integer, ties to even.
FloatRound(f) ==
    LET top == IF f.e <= 0 THEN f.hi ELSE f.hi % (2 ^ (TopBits - f.e))
        half == IF f.e <= 0 THEN 2 ^ (TopBits - 1) ELSE 2 ^ (TopBits - f.e - 1)
        above == top > half \/ (top = half /\ (f.mid > 0 \/ f.lo > 0))
        tie == top = half /\ f.mid = 0 /\ f.lo = 0
    IN IF f.e < 0 THEN 0
       ELSE IF above \/ (tie /\ IntPart(f) % 2 = 1) THEN IntPart(f) + 1
       ELSE IntPart(f)

\* The double (seconds / 60) * WORDS_PER_MINUTE for seconds > 0.
BudgetFloat(seconds) == FloatMulInt(FloatDiv(seconds, 60), WORDS_PER_MINUTE)


\* ------------------------------------------------------------------------
\* The text-preparation service (backend/api/app.py)
\* ------------------------------------------------------------------------

\* estimate_speech_duration(text), in hundredths of a second:
\* round(words / WORDS_PER_MINUTE * 60, 2).  The quotient words * 100 / 3 is
\* never half-way between two hundredths, so the double arithmetic rounds
\* to the same hundredth as the exact quotient does.
estimate_speech_duration(text) ==
    RoundDiv(CountWords(text) * 60 * 100, WORDS_PER_MINUTE)

\* target_words = int((max_audio_length_seconds / 60) * WORDS_PER_MINUTE):
\* the product is computed in doubles and int() truncates it towards zero.
TargetWords(max_audio_length_seconds) ==
    IF max_audio_length_seconds = 0 THEN 0
    ELSE IF max_audio_length_seconds < 0
         THEN -FloatTrunc(BudgetFloat(-max_audio_length_seconds))
         ELSE FloatTrunc(BudgetFloat(max_audio_length_seconds))

\* What openai.chat.completions.create can do: raise, answer without any
\* choice, answer with a message whose content is None, or answer with a
\* content string.
BackendContents ==
    {<<>>, <<" ">>, <<" ", "a", " ">>, <<"a", " ", "b">>, <<".">>, Words(4)}

BackendFailures ==
    {[kind |-> "raise"], [kind |-> "no_choices"], [kind |-> "no_content"]}

BackendOutcomes ==
    BackendFailures \cup {[kind |-> "content", content |-> c] : c \in BackendContents}

\* _shorten_text_by_openai with a handler that answers the empty string
\* instead of the input text.
ShortenWithoutFallback(text, max_audio_length_seconds, outcome) ==
    IF outcome.kind = "content" THEN Strip(outcome.content) ELSE <<>>

\* _shorten_text_by_openai: response.choices[0].message.content.strip(), and
\* the input text when anything in the try block raises (the call itself,
\* choices[0] on an empty list, .strip() on None).
_shorten_text_by_openai(text, max_audio_length_seconds, outcome) ==
    IF outcome.kind = "content" THEN Strip(outcome.content) ELSE text

\* _prepare_response: duration and updated always, duration_before and text
\* only when they are not None.
_prepare_response(duration, duration_before, updated, text) ==
    IF duration_before # None /\ text # None
    THEN [duration |-> duration, updated |-> updated,
          duration_before |-> TheValue(duration_before), text |-> TheValue(text)]
    ELSE IF duration_before # None
    THEN [duration |-> duration, updated |-> updated,
          duration_before |-> TheValue(duration_before)]
    ELSE IF text # None
    THEN [duration |-> duration, updated |-> updated, text |-> TheValue(text)]
    ELSE [duration |-> duration, updated |-> updated]

\* The validation with `text is None` in place of `not text`.
TextAbsent(data) == "text" \notin DOMAIN data

\* `not text` for text = data.get('text'): the key is absent or the string
\* is empty.
TextMissing(data) == "text" \notin DOMAIN data \/ data.text = <<>>

\* The comparison with >= in place of >.
ReachesMaximum(original_duration, max_audio_length_seconds) ==
    original_duration >= max_audio_length_seconds * 100

\* original_duration > self.max_audio_length_seconds
ExceedsMaximum(original_duration, max_audio_length_seconds) ==
    original_duration > max_audio_length_seconds * 100

RequiredMessage == "The \"text\" field is required."

\* Lines 130-138 without the second estimate: the duration of the original
\* text is reported for the shortened one.
OptimizeWithStaleDuration(text, max_audio_length_seconds, outcome) ==
    LET original_duration == estimate_speech_duration(text)
    IN IF original_duration > max_audio_length_seconds * 100
       THEN [optimized_text |->
                 IF outcome.kind = "content" THEN Strip(outcome.content) ELSE text,
             optimized_duration |-> original_duration,
             response_updated |-> TRUE]
       ELSE [optimized_text |-> text,
             optimized_duration |-> original_duration,
             response_updated |-> FALSE]

\* Lines 130-138 of prepare_text: the text and the duration to answer with.
Optimize(text, max_audio_length_seconds, outcome) ==
    LET original_duration == estimate_speech_duration(text)
    IN IF ExceedsMaximum(original_duration, max_audio_length_seconds)
       THEN LET optimized_text ==
                    _shorten_text_by_openai(text, max_audio_length_seconds, outcome)
            IN [optimized_text |-> optimized_text,
                optimized_duration |-> estimate_speech_duration(optimized_text),
                response_updated |-> TRUE]
       ELSE [optimized_text |-> text,
             optimized_duration |-> original_duration,
             response_updated |-> FALSE]

\* prepare_text: the HTTP response to a request with JSON body data, when the
\* summarization backend behaves as outcome says; calls lists, in order, the
\* estimates and the summarization call the handler made on the way.
prepare_text(data, max_audio_length_seconds, outcome) ==
    IF TextMissing(data)
    THEN [status |-> 422, body |-> [message |-> RequiredMessage], calls |-> <<>>]
    ELSE LET original_duration == estimate_speech_duration(data.text)
             o == Optimize(data.text, max_audio_length_seconds, outcome)
         IN [status |-> 200,
             body |-> _prepare_response(
                        o.optimized_duration,
                        IF o.response_updated THEN Some(original_duration) ELSE None,
                        o.response_updated,
                        IF o.response_updated THEN Some(o.optimized_text) ELSE None),
             calls |-> IF o.response_updated
                       THEN <<"estimate_speech_duration", "_shorten_text_by_openai",
                              "estimate_speech_duration">>
                       ELSE <<"estimate_speech_duration">>]

\* ------------------------------------------------------------------------
\* The speech output gate (backend/voice-agent/agent.py)
\* ------------------------------------------------------------------------

\* _response_from_json: the four fields, None for each absent one, False for
\* an absent updated.
_response_from_json(data) ==
    [text |-> Get(data, "text"),
     duration |-> Get(data, "duration"),
     updated |-> GetDefault(data, "updated", FALSE),
     duration_before |-> Get(data, "duration_before")]

\* The outcome of requests.post as _prepare_text_by_api sees it: a
\* RequestException, or a response with a status and a JSON object.
RequestFailed == [exception |-> "RequestException"]

\* _prepare_text_by_api without the test of the status code.
PrepareIgnoringStatus(reply, msg) ==
    IF reply = RequestFailed THEN Some(msg)
    ELSE IF "updated" \in DOMAIN reply.body /\ reply.body.updated
            /\ "text" \in DOMAIN reply.body
    THEN Some(reply.body.text)
    ELSE Some(msg)

\* _prepare_text_by_api after requests.post has returned or raised: the
\* value handed back to before_tts_cb.  response_dict always has the key
\* 'text', so response_dict.get('text', msg) is response_dict['text'].
_prepare_text_by_api(reply, msg) ==
    IF reply = RequestFailed THEN Some(msg)
    ELSE IF reply.status = 200
    THEN LET response_dict == _response_from_json(reply.body)
         IN IF response_dict.updated = Some(TRUE)
            THEN response_dict.text
            ELSE Some(msg)
    ELSE Some(msg)

\* The accumulation with its operands exchanged.
Prepend(text, chunk) == chunk \o text

\* text += chunk
Accumulate(text, chunk) == text \o chunk

\* The call of _prepare_text_by_api without the test of the text.
AlwaysPrepare(text) == TRUE

\* `if text:` before the call of _prepare_text_by_api.
ShouldPrepare(text) == text # <<>>


\* ------------------------------------------------------------------------
\* State
\* ------------------------------------------------------------------------

VARIABLES
    max_audio_length_seconds, \* TextPreparerAPI.max_audio_length_seconds
    pc,              \* where before_tts_cb is: idle, reading, awaiting, returned
    text_gen,        \* the argument of before_tts_cb
    chunks,          \* the fragments the stream has delivered so far
    text,            \* the text accumulated by the loop of before_tts_cb
    stream_end,      \* how the async for loop was left: none, exhausted, error
    posts,           \* the number of requests.post calls of this utterance
    msg,             \* the argument of _prepare_text_by_api, None before the call
    reply,           \* what requests.post returned or raised, None before
    returned,        \* the text before_tts_cb returns (line 145), set at pc = returned
    http_request,    \* the request on its way to /prepare_text
    http_response,   \* the response of /prepare_text on its way back
    served,          \* the request prepare_text handled last
    calls,           \* the calls prepare_text made while handling it
    backend,         \* what the summarization backend did for it
    target_words     \* the word budget embedded in the summarization request

vars == <<max_audio_length_seconds, pc, text_gen, chunks, text, stream_end, posts,
          msg, reply, returned, http_request, http_response, served, calls,
          backend, target_words>>

agent_vars == <<pc, text_gen, chunks, text, stream_end, posts, msg, reply, returned>>
service_vars == <<served, calls, backend, target_words>>

NoRequest == [sender |-> "nobody"]
NoResponse == [receiver |-> "nobody"]
NoInput == [kind |-> "none"]
NotCalled == [kind |-> "not_called"]

\* The fragments a stream delivers and the complete strings the pipeline
\* passes (agent.say passes a str).
FragmentChoices == {<<>>, <<" ">>, <<"a">>, <<"a", " ", "b", " ">>}
CompleteStrings == {<<>>, <<"a">>, Words(4)}

\* The JSON bodies a client of /prepare_text sends: without text, with an
\* empty text, with texts of 0, 1, 3, 4, 24, 25, 64 and 90 words.
ClientTexts ==
    {<<>>, <<" ">>, <<".">>, <<"a">>, Words(3), Words(4), Words(24), Words(25),
     Words(64), Words(90)}
ClientBodies ==
    {[lang |-> <<"a">>]} \cup {[text |-> t] : t \in ClientTexts}

\* What the endpoint behind API_HOST:API_PORT can answer when it is not this
\* service answering in order (a proxy, an error page, another version).
OtherReplies ==
    {[status |-> 500, body |-> [message |-> "error"]],
     [status |-> 500, body |-> [updated |-> TRUE, text |-> <<"b">>]],
     [status |-> 200, body |-> [message |-> "ok"]],
     [status |-> 200, body |-> [duration |-> 33]],
     [status |-> 200, body |-> [updated |-> FALSE]],
     [status |-> 200, body |-> [updated |-> FALSE, text |-> <<"b">>]],
     [status |-> 200, body |-> [text |-> <<"b">>]],
     [status |-> 200, body |-> [updated |-> TRUE, text |-> <<"b">>]],
     [status |-> 200, body |-> [updated |-> TRUE]]}

Init ==
    /\ max_audio_length_seconds \in ConfigChoices
    /\ pc = "idle"
    /\ text_gen = NoInput
    /\ chunks = <<>>
    /\ text = <<>>
    /\ stream_end = "none"
    /\ posts = 0
    /\ msg = None
    /\ reply = None
    /\ returned = None
    /\ http_request = NoRequest
    /\ http_response = NoResponse
    /\ served = NoRequest
    /\ calls = <<>>
    /\ backend = NotCalled
    /\ target_words = 0

\* Nothing is in progress: no utterance, no request.
Quiet ==
    /\ pc = "idle"
    /\ http_request = NoRequest
    /\ http_response = NoResponse
    /\ served = NoRequest

\* ------------------------------------------------------------------------
\* Actions of the service
\* ------------------------------------------------------------------------

\* A client other than the agent posts a JSON object to /prepare_text.
ClientRequest ==
    /\ Quiet
    /\ \E data \in ClientBodies :
          http_request' = [sender |-> "client", data |-> data]
    /\ UNCHANGED <<max_audio_length_seconds, agent_vars, http_response, service_vars>>

\* The handler prepare_text runs on the pending request, from its first line
\* to its return, the summarization call included.
PrepareText ==
    /\ http_request # NoRequest
    /\ \E outcome \in BackendOutcomes :
          LET r == prepare_text(http_request.data, max_audio_length_seconds, outcome)
              summarized == \E i \in 1..Len(r.calls) :
                                r.calls[i] = "_shorten_text_by_openai"
          IN /\ http_response' = [receiver |-> http_request.sender,
                                  status |-> r.status, body |-> r.body]
             /\ calls' = r.calls
             /\ backend' = IF summarized THEN outcome ELSE NotCalled
             /\ target_words' = IF summarized
                                THEN TargetWords(max_audio_length_seconds)
                                ELSE target_words
    /\ served' = http_request
    /\ http_request' = NoRequest
    /\ UNCHANGED <<max_audio_length_seconds, agent_vars>>

\* ------------------------------------------------------------------------
\* Actions of the agent
\* ------------------------------------------------------------------------

\* before_tts_cb with a str: returned as it is.
BeforeTtsString ==
    /\ Quiet
    /\ \E s \in CompleteStrings :
          /\ text_gen' = [kind |-> "str", value |-> s]
          /\ returned' = Some(s)
    /\ pc' = "returned"
    /\ UNCHANGED <<max_audio_length_seconds, chunks, text, stream_end, posts, msg,
                   reply, http_request, http_response, service_vars>>

\* before_tts_cb with an async iterable: text = "" and the loop is entered.
BeforeTtsStream ==
    /\ Quiet
    /\ text_gen' = [kind |-> "stream"]
    /\ text' = <<>>
    /\ pc' = "reading"
    /\ UNCHANGED <<max_audio_length_seconds, chunks, stream_end, posts, msg, reply,
                   returned, http_request, http_response, service_vars>>

\* One iteration of the async for loop: the next fragment arrives.
ReadChunk ==
    /\ pc = "reading"
    /\ Len(chunks) < MaxFragments
    /\ \E chunk \in FragmentChoices :
          /\ text' = Accumulate(text, chunk)
          /\ chunks' = Append(chunks, chunk)
    /\ UNCHANGED <<max_audio_length_seconds, pc, text_gen, stream_end, posts, msg,
                   reply, returned, http_request, http_response, service_vars>>

\* Lines 140-145 up to requests.post: with an empty text the callback returns
\* it, otherwise _prepare_text_by_api posts it.
AfterLoop(how) ==
    /\ pc = "reading"
    /\ stream_end' = how
    /\ IF ShouldPrepare(text)
       THEN /\ msg' = Some(text)
            /\ posts' = posts + 1
            /\ http_request' = [sender |-> "agent", data |-> [text |-> text]]
            /\ pc' = "awaiting"
            /\ UNCHANGED returned
       ELSE /\ returned' = Some(text)
            /\ pc' = "returned"
            /\ UNCHANGED <<msg, posts, http_request>>
    /\ UNCHANGED <<max_audio_length_seconds, text_gen, chunks, text, reply,
                   http_response, service_vars>>

\* The stream is exhausted: the loop ends normally.
StreamExhausted == AfterLoop("exhausted")

\* Reading the stream raises: logged, and the loop is left.
StreamError == AfterLoop("error")

\* requests.post has returned or raised: the rest of _prepare_text_by_api and
\* of before_tts_cb.
Finish(r) ==
    /\ reply' = Some(r)
    /\ returned' = _prepare_text_by_api(r, TheValue(msg))
    /\ pc' = "returned"
    /\ UNCHANGED text

\* requests.post raises a RequestException.
PostFails ==
    /\ pc = "awaiting"
    /\ Finish(RequestFailed)
    /\ http_request' = NoRequest
    /\ http_response' = NoResponse
    /\ UNCHANGED <<max_audio_length_seconds, text_gen, chunks, stream_end, posts, msg,
                   service_vars>>

\* requests.post returns the response of prepare_text.
ReceiveResponse ==
    /\ pc = "awaiting"
    /\ http_response # NoResponse
    /\ http_response.receiver = "agent"
    /\ Finish([status |-> http_response.status, body |-> http_response.body])
    /\ http_response' = NoResponse
    /\ UNCHANGED <<max_audio_length_seconds, text_gen, chunks, stream_end, posts, msg,
                   http_request, service_vars>>

\* requests.post returns a response that prepare_text did not produce.
ReceiveOther ==
    /\ pc = "awaiting"
    /\ http_request # NoRequest
    /\ \E r \in OtherReplies : Finish(r)
    /\ http_request' = NoRequest
    /\ UNCHANGED <<max_audio_length_seconds, text_gen, chunks, stream_end, posts, msg,
                   http_response, service_vars>>

Next ==
    \/ ClientRequest
    \/ PrepareText
    \/ BeforeTtsString
    \/ BeforeTtsStream
    \/ ReadChunk
    \/ StreamExhausted
    \/ StreamError
    \/ PostFails
    \/ ReceiveResponse
    \/ ReceiveOther

Spec == Init /\ [][Next]_vars


\* The endpoint is this service and nothing else answers for it.
NextService ==
    \/ ClientRequest
    \/ PrepareText
    \/ BeforeTtsString
    \/ BeforeTtsStream
    \/ ReadChunk
    \/ StreamExhausted
    \/ StreamError
    \/ PostFails
    \/ ReceiveResponse

SpecService == Init /\ [][NextService]_vars

\* ------------------------------------------------------------------------
\* Properties
\* ------------------------------------------------------------------------

\* prepare_text has answered a request whose text is a non-empty string.
AnsweredText ==
    /\ http_response # NoResponse
    /\ "text" \in DOMAIN served.data
    /\ served.data.text # <<>>

\* C1: for a non-empty text the response is 200 and has updated = true
\* exactly when the estimate of the text is strictly greater than
\* max_audio_length_seconds, and it has the fields text and duration_before
\* exactly when updated = true.
C1_UpdatedIffTooLong ==
    AnsweredText =>
        LET body == http_response.body
            too_long == estimate_speech_duration(served.data.text)
                            > max_audio_length_seconds * 100
        IN /\ http_response.status = 200
           /\ body.updated = too_long
           /\ ("text" \in DOMAIN body) = body.updated
           /\ ("duration_before" \in DOMAIN body) = body.updated

\* A text of at least one word whose estimate equals the maximum was
\* answered with updated = false and neither field.
C1_Witness ==
    /\ AnsweredText
    /\ CountWords(served.data.text) > 0
    /\ estimate_speech_duration(served.data.text) = max_audio_length_seconds * 100
    /\ http_response.body = [duration |-> max_audio_length_seconds * 100,
                             updated |-> FALSE]

\* C2: in a 200 response duration is the estimate of the text ultimately
\* returned (the input when updated = false, the field text when updated =
\* true), duration_before is the estimate of the input, and 90 words with a
\* maximum of 8 give updated = true and duration_before = 30.0.
C2_DurationOfReturnedText ==
    (http_response # NoResponse /\ http_response.status = 200) =>
        LET body == http_response.body
            input == served.data.text
        IN /\ ~body.updated => body.duration = estimate_speech_duration(input)
           /\ body.updated =>
                 /\ body.duration = estimate_speech_duration(body.text)
                 /\ body.duration_before = estimate_speech_duration(input)
           /\ (CountWords(input) = 90 /\ max_audio_length_seconds = 8) =>
                 /\ body.updated
                 /\ body.duration_before = 3000

\* The 90 words were answered with a shorter text and its duration.
C2_Witness ==
    /\ AnsweredText
    /\ CountWords(served.data.text) = 90
    /\ max_audio_length_seconds = 8
    /\ http_response.body.updated
    /\ http_response.body.duration_before = 3000
    /\ http_response.body.duration = 133
    /\ CountWords(http_response.body.text) = 4

\* C3: when the summarization call fails (it raises, answers without a
\* choice or without content), the request still succeeds with updated =
\* true, text equal to the input and duration equal to duration_before.
C3_BackendFailureFallsBack ==
    (http_response # NoResponse /\ backend \in BackendFailures) =>
        /\ http_response.status = 200
        /\ http_response.body.updated
        /\ http_response.body.text = served.data.text
        /\ http_response.body.duration = http_response.body.duration_before

\* A response was given after the backend answered without content.
C3_Witness ==
    /\ http_response # NoResponse
    /\ backend = [kind |-> "no_content"]
    /\ http_response.body.updated
    /\ http_response.body.text = served.data.text

CallFailed ==
    /\ reply # None
    /\ (TheValue(reply) = RequestFailed \/ TheValue(reply).status # 200)

\* C5: when the call of the preparation service fails (a RequestException
\* or a status other than 200), before_tts_cb returns the accumulated text
\* unmodified.
C5_CallFailureKeepsText ==
    (pc = "returned" /\ CallFailed) =>
        /\ returned = Some(Flatten(chunks))
        /\ returned = msg

\* A 500 response carrying updated = true and another text was received and
\* the accumulated text returned.
C5_Witness ==
    /\ pc = "returned"
    /\ reply = Some([status |-> 500, body |-> [updated |-> TRUE, text |-> <<"b">>]])
    /\ returned = Some(Flatten(chunks))

\* C6: after a 200 response the gate returns a text string: the text of the
\* response when it indicates updated = true, the original text otherwise.
C6_GateReturnsText ==
    (pc = "returned" /\ reply # None /\ ~CallFailed) =>
        LET body == TheValue(reply).body
            updated == "updated" \in DOMAIN body /\ body.updated
        IN /\ returned # None
           /\ updated => returned = Get(body, "text")
           /\ ~updated => returned = msg

\* C7: the text before_tts_cb accumulates and forwards is the concatenation
\* of the fragments received, in arrival order, whether the stream ended or
\* raised after k fragments; a non-empty partial text is still sent to the
\* preparation service.
C7_ConcatenationInOrder ==
    /\ pc = "reading" => text = Flatten(chunks)
    /\ msg # None =>
          /\ msg = Some(Flatten(chunks))
          /\ served # NoRequest => served.data.text = Flatten(chunks)
    /\ (stream_end # "none" /\ Flatten(chunks) # <<>>) =>
          /\ posts = 1
          /\ msg = Some(Flatten(chunks))

\* The stream raised after two different fragments and their concatenation
\* is on its way to the preparation service.
C7_Witness ==
    /\ stream_end = "error"
    /\ Len(chunks) = 2
    /\ chunks[1] # chunks[2]
    /\ chunks[1] # <<>>
    /\ chunks[2] # <<>>
    /\ http_request = [sender |-> "agent", data |-> [text |-> chunks[1] \o chunks[2]]]

\* C8: per utterance the preparation request is issued at most once, only
\* once the stream has stopped, and not at all for a complete string
\* (returned unchanged) or an empty accumulated text (returned empty).
C8_AtMostOneRequest ==
    /\ posts <= 1
    /\ posts = 1 => (stream_end # "none" /\ text_gen.kind = "stream")
    /\ (pc = "returned" /\ text_gen.kind = "str") =>
          (posts = 0 /\ returned = Some(text_gen.value))
    /\ (pc = "returned" /\ text_gen.kind = "stream" /\ Flatten(chunks) = <<>>) =>
          (posts = 0 /\ returned = Some(<<>>))
    /\ (http_request # NoRequest /\ http_request.sender = "agent") => pc = "awaiting"

\* The single request failed and the callback returned without another.
C8_Witness ==
    /\ pc = "returned"
    /\ reply = Some(RequestFailed)
    /\ posts = 1
    /\ http_request = NoRequest

\* round((seconds / 60) * WORDS_PER_MINUTE) in doubles.
RoundedBudget(seconds) ==
    IF seconds = 0 THEN 0
    ELSE IF seconds < 0 THEN -FloatRound(BudgetFloat(-seconds))
    ELSE FloatRound(BudgetFloat(seconds))

\* C9: the word budget embedded in the summarization request is
\* round(max_audio_length_seconds / 60 * 180) and is never negative.
C9_BudgetIsRounded ==
    backend # NotCalled =>
        /\ target_words = RoundedBudget(max_audio_length_seconds)
        /\ target_words >= 0

\* C10: for a streamed utterance whose accumulated text is not empty,
\* before_tts_cb returns a non-empty string whatever the preparation service
\* and the summarization backend do.
C10_NonEmptyTextReturned ==
    (pc = "returned" /\ text_gen.kind = "stream" /\ Flatten(chunks) # <<>>) =>
        /\ returned # None
        /\ TheValue(returned) # <<>>

=============================================================================
